---------------------------- MODULE Spec2Model ----------------------------
(***************************************************************************)
(* Model of the ray-casting kernel of raycast_puzzle.py: Vector2,          *)
(* LevelMap and Ray (Ray.cast and Ray._cast_single).                       *)
(*                                                                         *)
(* Python floats are modelled as exact rationals <<n, d>> (d > 0, lowest   *)
(* terms).  math.floor, math.ceil and int() keep their different roundings *)
(* (int() truncates toward zero).  math.sqrt is exact on perfect squares   *)
(* and rounds to the nearest integer otherwise; the only inputs on which   *)
(* it rounds are the near-axis directions of RawDirections, where the      *)
(* relative error is below 2e-9.                                           *)
(***************************************************************************)
EXTENDS Integers, Sequences, FiniteSets, TLC

----------------------------------------------------------------------------
(* Rational arithmetic standing for Python float arithmetic.               *)

RECURSIVE GCD(_, _)
GCD(a, b) == IF b = 0 THEN a ELSE GCD(b, a % b)

IAbs(a) == IF a < 0 THEN -a ELSE a

Q(n, d) ==
    LET s == IF d < 0 THEN -1 ELSE 1
        g == GCD(IAbs(n), IAbs(d))
    IN  <<(s * n) \div g, (s * d) \div g>>

QI(n) == <<n, 1>>

QNeg(a) == <<-a[1], a[2]>>

QAbs(a) == <<IAbs(a[1]), a[2]>>

QAdd(a, b) ==
    LET g == GCD(a[2], b[2])
    IN  Q(a[1] * (b[2] \div g) + b[1] * (a[2] \div g), a[2] * (b[2] \div g))

QSub(a, b) == QAdd(a, QNeg(b))

QMul(a, b) ==
    LET g1 == GCD(IAbs(a[1]), b[2])
        g2 == GCD(IAbs(b[1]), a[2])
    IN  Q((a[1] \div g1) * (b[1] \div g2), (a[2] \div g2) * (b[2] \div g1))

QDiv(a, b) == QMul(a, Q(b[2], b[1]))

QLt(a, b) ==
    LET g == GCD(a[2], b[2])
    IN  a[1] * (b[2] \div g) < b[1] * (a[2] \div g)

QLe(a, b) == ~QLt(b, a)

QMin(a, b) == IF QLt(b, a) THEN b ELSE a

QMax(a, b) == IF QLt(a, b) THEN b ELSE a

\* math.floor
Floor(a) == a[1] \div a[2]

\* math.ceil
Ceil(a) == -((-a[1]) \div a[2])

\* int(): truncation toward zero
Trunc(a) == IF a[1] >= 0 THEN Floor(a) ELSE Ceil(a)

RECURSIVE Newton(_, _)
Newton(n, x) ==
    LET y == (x + n \div x) \div 2
    IN  IF y >= x THEN x ELSE Newton(n, y)

\* math.sqrt of a non-negative integer, rounded to the nearest integer
ISqrt(n) ==
    IF n = 0 THEN 0
    ELSE LET r == Newton(n, n)
         IN  IF n - r * r > r THEN r + 1 ELSE r

Zero == QI(0)
Half == Q(1, 2)

----------------------------------------------------------------------------
(* Vector2                                                                 *)

Vec(x, y) == [x |-> x, y |-> y]

\* Vector2.normalize, on vectors with integer components
Normalize(v) ==
    LET length == ISqrt(v.x[1] * v.x[1] + v.y[1] * v.y[1])
    IN  IF length > 0
        THEN Vec(QDiv(v.x, QI(length)), QDiv(v.y, QI(length)))
        ELSE Vec(Zero, Zero)

----------------------------------------------------------------------------
(* Program constants                                                       *)

\* MAX_DEPTH, the budget the renderer casts with
MAX_DEPTH == 20

\* self.max_bounces
MaxBounces == 3

\* the literal 0.0001 of _cast_single is 1 / EpsDen
EpsDen == 10000

Eps == Q(1, EpsDen)

\* the boundary sentinel returned for a cell outside the grid
Sentinel == 1

\* wall_type of Ray.cast before its first assignment (an unbound local)
Unbound == -1

----------------------------------------------------------------------------
(* Bounds of the model                                                     *)

\* cast budgets tried: 0 .. MaxBudget, and MAX_DEPTH
MaxBudget == 3

\* casts made on one Ray object
MaxCasts == 2

Budgets == {QI(b) : b \in 0..MaxBudget} \cup {QI(MAX_DEPTH)}

----------------------------------------------------------------------------
(* Levels: a LevelMap (grid and mirror list) with the origins rays start   *)
(* from, all inside empty cells.                                           *)

Mirror(x, y, o) == [x |-> x, y |-> y, orientation |-> o]

\* mirror_data is None
NoMirror == Mirror(-1, -1, "none")

\* wall-bordered, one interior wall of code 2 at (5,1)
LevelWalls ==
    [grid    |-> << <<1, 1, 1, 1, 1, 1, 1>>,
                    <<1, 0, 0, 0, 0, 2, 1>>,
                    <<1, 0, 0, 0, 0, 0, 1>>,
                    <<1, 1, 1, 1, 1, 1, 1>> >>,
     mirrors |-> << >>,
     origins |-> {Vec(Q(3, 2), Q(3, 2)), Vec(Q(7, 2), Q(5, 2))}]

\* edge cells empty
LevelOpen ==
    [grid    |-> << <<0, 0, 0>>,
                    <<0, 0, 0>>,
                    <<2, 0, 0>> >>,
     mirrors |-> << >>,
     origins |-> {Vec(Q(3, 2), Q(3, 2)), Vec(Q(1, 2), Q(1, 2))}]

\* mirrors facing each other; the mirror at (1,0) is registered with the
\* orientation that does not match the face a ray from below strikes
LevelMirrors ==
    [grid    |-> << <<1, 3, 3, 1, 1>>,
                    <<3, 0, 0, 0, 3>>,
                    <<1, 1, 3, 1, 1>> >>,
     mirrors |-> << Mirror(0, 1, "vertical"), Mirror(4, 1, "vertical"),
                    Mirror(2, 0, "horizontal"), Mirror(2, 2, "horizontal"),
                    Mirror(1, 0, "vertical") >>,
     origins |-> {Vec(Q(3, 2), Q(3, 2)), Vec(Q(5, 2), Q(3, 2))}]

\* wall-bordered, a wall of code 2 diagonally up-left of the origins
LevelCorner ==
    [grid    |-> << <<1, 1, 1, 1, 1>>,
                    <<1, 2, 0, 0, 1>>,
                    <<1, 0, 0, 0, 1>>,
                    <<1, 0, 0, 0, 1>>,
                    <<1, 1, 1, 1, 1>> >>,
     mirrors |-> << >>,
     origins |-> {Vec(Q(19, 8), Q(5, 2)), Vec(Q(5, 2), Q(5, 2))}]

Levels == {LevelWalls, LevelOpen, LevelMirrors, LevelCorner}

\* directions handed to Ray(): the axes, the 3-4-5 diagonals, two near-axis
\* directions with a negative component below epsilon after normalize, and
\* the zero vector
AxisDirections ==
    {Vec(QI(1), QI(0)), Vec(QI(-1), QI(0)), Vec(QI(0), QI(1)), Vec(QI(0), QI(-1))}

RawDirections ==
    AxisDirections
    \cup {Vec(QI(sx * 3), QI(sy * 4)) : sx \in {-1, 1}, sy \in {-1, 1}}
    \cup {Vec(QI(sx * 4), QI(sy * 3)) : sx \in {-1, 1}, sy \in {-1, 1}}
    \cup {Vec(QI(-1), QI(20000)), Vec(QI(20000), QI(-1)), Vec(QI(0), QI(0))}

----------------------------------------------------------------------------
(* LevelMap                                                                *)

\* LevelMap.width
Width(g) == Len(g[1])

\* LevelMap.height
Height(g) == Len(g)

InGrid(g, x, y) == 0 <= x /\ x < Width(g) /\ 0 <= y /\ y < Height(g)

\* level_map.grid[y][x]
Tile(g, x, y) == g[y + 1][x + 1]

\* the "for mirror in level_map.mirrors" scan: the first entry at (x, y)
RECURSIVE FindMirror(_, _, _)
FindMirror(ms, x, y) ==
    IF ms = << >> THEN NoMirror
    ELSE IF Head(ms).x = x /\ Head(ms).y = y THEN Head(ms)
    ELSE FindMirror(Tail(ms), x, y)

----------------------------------------------------------------------------
(* State                                                                   *)

VARIABLES
    grid,            \* level_map.grid
    mirrors,         \* level_map.mirrors
    origins,         \* the positions rays of this level start from
    ray,             \* the Ray object: origin, direction, bounces, max_bounces
    casts,           \* cast calls made on the Ray object so far
    pc,              \* where Ray.cast stands
    max_distance,    \* cast's max_distance argument
    current_pos,     \* cast's current_pos
    current_dir,     \* cast's current_dir (the object _cast_single mutates)
    total_distance,  \* cast's total_distance
    wall_type,       \* cast's wall_type, Unbound before the first segment
    seg,             \* the locals of the running _cast_single call
    segres,          \* the tuple _cast_single returned
    result,          \* the tuple cast returned
    segs,            \* history: the segments this cast has finished
    prev             \* history: how the previous cast on this Ray ended

vars == <<grid, mirrors, origins, ray, casts, pc, max_distance, current_pos,
          current_dir, total_distance, wall_type, seg, segres, result, segs,
          prev>>

level == <<grid, mirrors, origins>>

NoSeg ==
    [max_distance |-> Zero, dir_in |-> Vec(Zero, Zero), h_x |-> 0, h_dx |-> 0,
     v_y |-> 0, v_dy |-> 0, distance |-> Zero, steps |-> 0]

NoSegRes ==
    [distance |-> Zero, wall_type |-> 0, hit_mirror |-> FALSE,
     mirror |-> NoMirror, kind |-> "none"]

NoResult == [distance |-> Zero, wall_type |-> Unbound, hit_mirror |-> FALSE]

NoPrev == [valid |-> FALSE, max_distance |-> Zero, pc |-> "idle", result |-> NoResult]

\* Ray.__init__
NewRayObject(o, d) ==
    [origin |-> o, direction |-> Normalize(d), bounces |-> 0,
     max_bounces |-> MaxBounces]

Fresh(o, d) ==
    /\ ray = NewRayObject(o, d)
    /\ casts = 0
    /\ pc = "idle"
    /\ max_distance = Zero
    /\ current_pos = o
    /\ current_dir = Vec(Zero, Zero)
    /\ total_distance = Zero
    /\ wall_type = Unbound
    /\ seg = NoSeg
    /\ segres = NoSegRes
    /\ result = NoResult
    /\ segs = << >>
    /\ prev = NoPrev

Init ==
    \E l \in Levels :
        /\ grid = l.grid
        /\ mirrors = l.mirrors
        /\ origins = l.origins
        /\ \E o \in l.origins, d \in RawDirections : Fresh(o, d)

Ended == pc \in {"idle", "returned", "raised"}

----------------------------------------------------------------------------
(* Ray._cast_single                                                        *)

\* lines 179-182: the epsilon nudge of one direction component
NudgeComponent(c) == IF QLt(QAbs(c), Eps) THEN Eps ELSE c

Nudge(d) == Vec(NudgeComponent(d.x), NudgeComponent(d.y))

\* lines 192-197: the first vertical grid line tracked
InitHX(o, d) == IF QLt(Zero, d.x) THEN Floor(o.x) + 1 ELSE Ceil(o.x) - 1

InitHDX(d) == IF QLt(Zero, d.x) THEN 1 ELSE -1

\* lines 199-204: the first horizontal grid line tracked
InitVY(o, d) == IF QLt(Zero, d.y) THEN Floor(o.y) + 1 ELSE Ceil(o.y) - 1

InitVDY(d) == IF QLt(Zero, d.y) THEN 1 ELSE -1

\* lines 210-215
HDist(o, d, s) == QDiv(QSub(QI(s.h_x), o.x), d.x)

HY(o, d, s) == QAdd(o.y, QMul(HDist(o, d, s), d.y))

VDist(o, d, s) == QDiv(QSub(QI(s.v_y), o.y), d.y)

VX(o, d, s) == QAdd(o.x, QMul(VDist(o, d, s), d.x))

\* line 218
TakeH(o, d, s) == QLt(QAbs(HDist(o, d, s)), QAbs(VDist(o, d, s)))

\* lines 219 and 240
Crossing(o, d, s) ==
    IF TakeH(o, d, s) THEN QAbs(HDist(o, d, s)) ELSE QAbs(VDist(o, d, s))

\* mutant: the offset forgets the direction of travel
Offset_Unsigned(c) == Half

\* the 0.5 offset of lines 224 and 246
Offset(c) == IF QLt(c, Zero) THEN Half ELSE QNeg(Half)

\* lines 224 and 245
CheckX(o, d, s) ==
    IF TakeH(o, d, s) THEN Trunc(QSub(QI(s.h_x), Offset(d.x)))
    ELSE Trunc(VX(o, d, s))

\* lines 225 and 246
CheckY(o, d, s) ==
    IF TakeH(o, d, s) THEN Trunc(HY(o, d, s))
    ELSE Trunc(QSub(QI(s.v_y), Offset(d.y)))

\* mutant: the iteration forgets to move the tracked grid line
Stepped_NoAdvance(o, d, s) ==
    [s EXCEPT !.distance = Crossing(o, d, s), !.steps = s.steps + 1]

\* lines 238 and 259
Stepped(o, d, s) ==
    IF TakeH(o, d, s)
    THEN [s EXCEPT !.h_x = s.h_x + s.h_dx, !.distance = Crossing(o, d, s),
                   !.steps = s.steps + 1]
    ELSE [s EXCEPT !.v_y = s.v_y + s.v_dy, !.distance = Crossing(o, d, s),
                   !.steps = s.steps + 1]

\* lines 227-236 and 248-257: what the iteration returns for the cell checked
HitResult(g, ms, dist, cx, cy) ==
    IF ~InGrid(g, cx, cy)
    THEN [distance |-> dist, wall_type |-> Sentinel, hit_mirror |-> FALSE,
          mirror |-> NoMirror, kind |-> "bounds"]
    ELSE LET m == FindMirror(ms, cx, cy)
         IN  IF m # NoMirror
             THEN [distance |-> dist, wall_type |-> Tile(g, cx, cy),
                   hit_mirror |-> TRUE, mirror |-> m, kind |-> "tile"]
             ELSE [distance |-> dist, wall_type |-> Tile(g, cx, cy),
                   hit_mirror |-> FALSE, mirror |-> NoMirror, kind |-> "tile"]

\* line 208
LoopRuns(s) == QLt(s.distance, s.max_distance)

\* lines 227-231 and 248-252: the iteration returns instead of stepping on
Blocked(g, cx, cy) == IF InGrid(g, cx, cy) THEN Tile(g, cx, cy) # 0 ELSE TRUE

----------------------------------------------------------------------------
(* Ray.cast                                                                *)

\* mutant: the two orientations are swapped
ReflectDir_Swapped(d, orientation) ==
    IF orientation = "horizontal" THEN Vec(QNeg(d.x), d.y) ELSE Vec(d.x, QNeg(d.y))

\* lines 165-168
ReflectDir(d, orientation) ==
    IF orientation = "horizontal" THEN Vec(d.x, QNeg(d.y)) ELSE Vec(QNeg(d.x), d.y)

\* lines 159-162
NextPos(p, d, dist) == Vec(QAdd(p.x, QMul(d.x, dist)), QAdd(p.y, QMul(d.y, dist)))

\* line 151
CastLoopRuns(r, total, md) == r.bounces < r.max_bounces /\ QLt(total, md)

\* the entry appended to the history when a segment returns
SegEntry ==
    [origin |-> current_pos, dir_in |-> seg.dir_in, dir |-> current_dir,
     budget |-> seg.max_distance, distance |-> segres.distance,
     wall_type |-> segres.wall_type, mirror |-> segres.mirror,
     kind |-> segres.kind]

----------------------------------------------------------------------------
(* Actions                                                                 *)

\* Ray(origin, direction): the renderer builds a new Ray for the next column
NewRay ==
    /\ pc \in {"returned", "raised"}
    /\ \E o \in origins, d \in RawDirections :
           /\ ray' = NewRayObject(o, d)
           /\ current_pos' = o
    /\ casts' = 0
    /\ pc' = "idle"
    /\ max_distance' = Zero
    /\ current_dir' = Vec(Zero, Zero)
    /\ total_distance' = Zero
    /\ wall_type' = Unbound
    /\ seg' = NoSeg
    /\ segres' = NoSegRes
    /\ result' = NoResult
    /\ segs' = << >>
    /\ prev' = NoPrev
    /\ UNCHANGED level

\* Ray.cast is called: lines 147-149
CastBegin ==
    /\ Ended
    /\ casts < MaxCasts
    /\ \E md \in Budgets : max_distance' = md
    /\ casts' = casts + 1
    /\ prev' = IF pc = "idle" THEN NoPrev
               ELSE [valid |-> TRUE, max_distance |-> max_distance, pc |-> pc,
                     result |-> result]
    /\ current_pos' = ray.origin
    /\ current_dir' = ray.direction
    /\ total_distance' = Zero
    /\ wall_type' = Unbound
    /\ seg' = NoSeg
    /\ segres' = NoSegRes
    /\ result' = NoResult
    /\ segs' = << >>
    /\ pc' = "loop"
    /\ UNCHANGED <<level, ray>>

\* line 151 true, then the call of _cast_single up to line 207
SegmentBegin ==
    /\ pc = "loop"
    /\ CastLoopRuns(ray, total_distance, max_distance)
    /\ LET d == Nudge(current_dir)
       IN  /\ current_dir' = d
           /\ seg' = [max_distance |-> QSub(max_distance, total_distance),
                      dir_in |-> current_dir,
                      h_x |-> InitHX(current_pos, d), h_dx |-> InitHDX(d),
                      v_y |-> InitVY(current_pos, d), v_dy |-> InitVDY(d),
                      distance |-> Zero, steps |-> 0]
    /\ segres' = NoSegRes
    /\ pc' = "dda"
    /\ UNCHANGED <<level, ray, casts, max_distance, current_pos, total_distance,
                   wall_type, result, segs, prev>>

\* one iteration of the stepping loop that finds an empty cell: lines 208-259
Advance ==
    /\ pc = "dda"
    /\ LoopRuns(seg)
    /\ ~Blocked(grid, CheckX(current_pos, current_dir, seg),
                CheckY(current_pos, current_dir, seg))
    /\ seg' = Stepped(current_pos, current_dir, seg)
    /\ UNCHANGED <<level, ray, casts, pc, max_distance, current_pos, current_dir,
                   total_distance, wall_type, segres, result, segs, prev>>

\* one iteration that returns: out of the grid, or a nonzero tile
Hit ==
    /\ pc = "dda"
    /\ LoopRuns(seg)
    /\ Blocked(grid, CheckX(current_pos, current_dir, seg),
               CheckY(current_pos, current_dir, seg))
    /\ segres' = HitResult(grid, mirrors, Crossing(current_pos, current_dir, seg),
                           CheckX(current_pos, current_dir, seg),
                           CheckY(current_pos, current_dir, seg))
    /\ seg' = [seg EXCEPT !.distance = Crossing(current_pos, current_dir, seg),
                          !.steps = seg.steps + 1]
    /\ pc' = "segment_returned"
    /\ UNCHANGED <<level, ray, casts, max_distance, current_pos, current_dir,
                   total_distance, wall_type, result, segs, prev>>

\* the stepping loop ends on its condition: line 261
OutOfBudget ==
    /\ pc = "dda"
    /\ ~LoopRuns(seg)
    /\ segres' = [distance |-> seg.max_distance, wall_type |-> 0,
                  hit_mirror |-> FALSE, mirror |-> NoMirror, kind |-> "budget"]
    /\ pc' = "segment_returned"
    /\ UNCHANGED <<level, ray, casts, max_distance, current_pos, current_dir,
                   total_distance, wall_type, seg, result, segs, prev>>

\* lines 153-170: the segment struck a mirror
Reflect ==
    /\ pc = "segment_returned"
    /\ segres.hit_mirror
    /\ total_distance' = QAdd(total_distance, segres.distance)
    /\ wall_type' = segres.wall_type
    /\ current_pos' = NextPos(current_pos, current_dir, segres.distance)
    /\ current_dir' = ReflectDir(current_dir, segres.mirror.orientation)
    /\ ray' = [ray EXCEPT !.bounces = ray.bounces + 1]
    /\ segs' = Append(segs, SegEntry)
    /\ pc' = "loop"
    /\ UNCHANGED <<level, casts, max_distance, seg, segres, result, prev>>

\* lines 153-155 and 172: the segment did not strike a mirror
ReturnSegment ==
    /\ pc = "segment_returned"
    /\ ~segres.hit_mirror
    /\ total_distance' = QAdd(total_distance, segres.distance)
    /\ wall_type' = segres.wall_type
    /\ result' = [distance |-> QAdd(total_distance, segres.distance),
                  wall_type |-> segres.wall_type, hit_mirror |-> FALSE]
    /\ segs' = Append(segs, SegEntry)
    /\ pc' = "returned"
    /\ UNCHANGED <<level, ray, casts, max_distance, current_pos, current_dir,
                   seg, segres, prev>>

\* line 151 false with wall_type assigned: line 174 returns
ReturnAfterLoop ==
    /\ pc = "loop"
    /\ ~CastLoopRuns(ray, total_distance, max_distance)
    /\ wall_type # Unbound
    /\ result' = [distance |-> total_distance, wall_type |-> wall_type,
                  hit_mirror |-> FALSE]
    /\ pc' = "returned"
    /\ UNCHANGED <<level, ray, casts, max_distance, current_pos, current_dir,
                   total_distance, wall_type, seg, segres, segs, prev>>

\* line 151 false before any segment: line 174 reads the unbound wall_type
\* and raises UnboundLocalError
RaiseUnbound ==
    /\ pc = "loop"
    /\ ~CastLoopRuns(ray, total_distance, max_distance)
    /\ wall_type = Unbound
    /\ pc' = "raised"
    /\ UNCHANGED <<level, ray, casts, max_distance, current_pos, current_dir,
                   total_distance, wall_type, seg, segres, result, segs, prev>>

\* the steps of a running cast
CastStep ==
    \/ SegmentBegin
    \/ Advance
    \/ Hit
    \/ OutOfBudget
    \/ Reflect
    \/ ReturnSegment
    \/ ReturnAfterLoop
    \/ RaiseUnbound

Next == NewRay \/ CastBegin \/ CastStep

Spec == Init /\ [][Next]_vars

\* a cast is under way
Running == pc \in {"loop", "dda", "segment_returned"}

\* A cast is one synchronous call: once begun it keeps taking steps.  This is
\* WF_vars(CastStep) written out: CastStep is enabled exactly in the Running
\* states, and a step of Next that leaves a Running state is a CastStep.
FairSpec == Spec /\ ([]<>(~Running) \/ []<><<Running>>_vars)

----------------------------------------------------------------------------
(* Geometry the claims are stated with, independent of the stepping loop   *)

CastOver == pc \in {"returned", "raised"}

RECURSIVE SumDistance(_)
SumDistance(ss) ==
    IF ss = << >> THEN Zero ELSE QAdd(Head(ss).distance, SumDistance(Tail(ss)))

\* the parameter interval on which o + t * d lies strictly between lo and hi
EnterT(oc, dc, lo, hi) ==
    IF QLt(Zero, dc) THEN QDiv(QSub(QI(lo), oc), dc) ELSE QDiv(QSub(QI(hi), oc), dc)

LeaveT(oc, dc, lo, hi) ==
    IF QLt(Zero, dc) THEN QDiv(QSub(QI(hi), oc), dc) ELSE QDiv(QSub(QI(lo), oc), dc)

\* the open segment from o along d of length len meets the inside of cell (cx, cy)
PassesThrough(o, d, len, cx, cy) ==
    LET lo == QMax(Zero, QMax(EnterT(o.x, d.x, cx, cx + 1), EnterT(o.y, d.y, cy, cy + 1)))
        hi == QMin(len, QMin(LeaveT(o.x, d.x, cx, cx + 1), LeaveT(o.y, d.y, cy, cy + 1)))
    IN  QLt(lo, hi)

\* the distance along d at which a ray from o inside the grid leaves it
ExitDistance(g, o, d) ==
    QMin(LeaveT(o.x, d.x, 0, Width(g)), LeaveT(o.y, d.y, 0, Height(g)))

Cells(g) == (0..(Width(g) - 1)) \X (0..(Height(g) - 1))

WallBordered(g) ==
    \A c \in Cells(g) :
        (c[1] = 0 \/ c[1] = Width(g) - 1 \/ c[2] = 0 \/ c[2] = Height(g) - 1)
            => Tile(g, c[1], c[2]) # 0

\* an axis-aligned unit direction
AxisAligned(d) == d \in AxisDirections

\* the centre of a cell
CellCentre(o) == QSub(o.x, QI(Floor(o.x))) = Half /\ QSub(o.y, QI(Floor(o.y))) = Half

\* the k-th cell from the cell of o along the axis direction d
CellAlong(o, d, k) == <<Floor(o.x) + k * d.x[1], Floor(o.y) + k * d.y[1]>>

NonzeroAt(g, c) == InGrid(g, c[1], c[2]) /\ Tile(g, c[1], c[2]) # 0

\* how many cells away the first nonzero cell along d lies (wall-bordered grid)
FirstNonzero(g, o, d) ==
    CHOOSE k \in 1..(Width(g) + Height(g)) :
        /\ NonzeroAt(g, CellAlong(o, d, k))
        /\ \A j \in 1..(k - 1) : ~NonzeroAt(g, CellAlong(o, d, j))

Sign(c) == IF QLt(c, Zero) THEN -1 ELSE IF QLt(Zero, c) THEN 1 ELSE 0

----------------------------------------------------------------------------
(* Claims                                                                  *)

\* C1: for maxDistance > 0 the total distance Ray.cast returns is at most
\* maxDistance, and a single segment never reports a distance beyond its
\* remaining budget (a crossing beyond the budget is reported as the budget
\* with surfaceType 0, not as an obstruction hit).
C1_DistanceWithinBudget ==
    /\ (pc = "returned" /\ QLt(Zero, max_distance)) => QLe(result.distance, max_distance)
    /\ (pc = "segment_returned" /\ QLt(seg.max_distance, seg.distance))
          => segres = [distance |-> seg.max_distance, wall_type |-> 0,
                       hit_mirror |-> FALSE, mirror |-> NoMirror, kind |-> "budget"]

\* C2 as stated: Ray.cast terminates because every step of the stepping loop
\* strictly increases the crossing distance.
C2_StrictlyIncreasing ==
    [][(pc = "dda" /\ seg'.steps = seg.steps + 1) => QLt(seg.distance, seg'.distance)]_vars

\* C2 as amended: every cast that has begun ends; a cast makes at most
\* MaxBounces segment casts that end in a reflection; every step of the
\* stepping loop moves one tracked grid line one cell on and never decreases
\* the crossing distance (it repeats the distance when the ray passes exactly
\* through a grid corner).
C2_Terminates ==
    /\ [](/\ ray.bounces <= MaxBounces
          /\ Cardinality({i \in 1..Len(segs) : segs[i].mirror # NoMirror}) <= MaxBounces)
    /\ [][(pc = "dda" /\ seg'.steps = seg.steps + 1)
             => /\ QLe(seg.distance, seg'.distance)
                /\ pc' = "dda"
                      => \/ seg'.h_x = seg.h_x + seg.h_dx /\ seg'.v_y = seg.v_y
                         \/ seg'.v_y = seg.v_y + seg.v_dy /\ seg'.h_x = seg.h_x]_vars
    /\ (pc = "loop") ~> CastOver
    /\ (pc = "dda") ~> (pc = "segment_returned")

C2_Witness ==
    /\ pc = "returned"
    /\ ray.bounces = MaxBounces
    /\ seg.steps >= 2

\* C3: on a fresh Ray whose first three segments each end in a reflection
\* with budget left, Ray.cast casts a 4th segment and returns the 4th
\* segment's result: the total over four segments and the 4th surfaceType.
C3_FourthSegmentCast ==
    (CastOver /\ casts = 1 /\ ray.bounces = MaxBounces
        /\ QLt(SumDistance(SubSeq(segs, 1, MaxBounces)), max_distance))
    => /\ pc = "returned"
       /\ Len(segs) = MaxBounces + 1
       /\ result.distance = SumDistance(segs)
       /\ result.wall_type = segs[Len(segs)].wall_type

\* C4: when a segment strikes a mirror and the cast goes on, the next
\* segment starts at origin + direction * distance with y negated and x kept
\* for a horizontal mirror, x negated and y kept for a vertical one (direction
\* being the direction the segment was stepped with); and the distance
\* finally returned is the sum of the distances of the segments cast.
C4_Reflection ==
    /\ \A i \in 1..(Len(segs) - 1) :
          LET s == segs[i]
              n == segs[i + 1]
          IN  /\ s.mirror # NoMirror
              /\ n.origin = Vec(QAdd(s.origin.x, QMul(s.dir.x, s.distance)),
                                QAdd(s.origin.y, QMul(s.dir.y, s.distance)))
              /\ s.mirror.orientation = "horizontal"
                    => n.dir_in = Vec(s.dir.x, QNeg(s.dir.y))
              /\ s.mirror.orientation = "vertical"
                    => n.dir_in = Vec(QNeg(s.dir.x), s.dir.y)
    /\ pc = "returned" => result.distance = SumDistance(segs)

C4_Witness ==
    /\ pc = "returned"
    /\ Len(segs) = 3
    /\ \E i \in 1..2 : segs[i].mirror.orientation = "horizontal"
    /\ \E i \in 1..2 : segs[i].mirror.orientation = "vertical"

\* C5: a cast with maxDistance = 0 returns distance 0 and surfaceType 0
\* without a step and without raising.
C5_ZeroBudgetReturns ==
    (CastOver /\ max_distance = Zero)
    => /\ pc = "returned"
       /\ result.distance = Zero
       /\ result.wall_type = 0
       /\ segs = << >>

\* the case C6 is about: a cast has ended that was made along an axis from
\* the centre of a cell of a wall-bordered grid, the first nonzero cell along
\* the direction is not a registered mirror and the budget reaches it
C6_Applies ==
    /\ CastOver
    /\ WallBordered(grid)
    /\ AxisAligned(ray.direction)
    /\ CellCentre(ray.origin)
    /\ LET k == FirstNonzero(grid, ray.origin, ray.direction)
           c == CellAlong(ray.origin, ray.direction, k)
       IN  /\ FindMirror(mirrors, c[1], c[2]) = NoMirror
           /\ QLe(QSub(QI(k), Half), max_distance)

\* C6: an axis-aligned ray from the centre of an empty cell of a
\* wall-bordered grid, whose first nonzero cell along the direction is not a
\* mirror and lies within the budget, returns the distance to the near face
\* of that cell and that cell's tile code.
C6_AxisAlignedDistance ==
    C6_Applies
    => LET k == FirstNonzero(grid, ray.origin, ray.direction)
           c == CellAlong(ray.origin, ray.direction, k)
       IN  /\ pc = "returned"
           /\ result = [distance |-> QSub(QI(k), Half),
                        wall_type |-> Tile(grid, c[1], c[2]),
                        hit_mirror |-> FALSE]

C6_Witness ==
    /\ C6_Applies
    /\ ray.origin = Vec(Q(3, 2), Q(3, 2))
    /\ ray.direction = Vec(QI(1), QI(0))
    /\ result.distance = Q(7, 2)
    /\ result.wall_type = 2

\* C7: a segment that returns the boundary sentinel reports the distance at
\* which the ray crosses the outer boundary line of the grid, whichever side
\* it leaves through.
C7_SentinelAtBoundary ==
    (pc = "segment_returned" /\ segres.kind = "bounds")
    => /\ segres.distance = ExitDistance(grid, current_pos, current_dir)
       /\ segres.wall_type = Sentinel
       /\ ~segres.hit_mirror

\* one component c of the direction handed to the segment, its value n after
\* the nudge and the step taken along its axis
C8_ComponentNudged(c, n, step) ==
    /\ QLt(QAbs(c), Eps) => (QAbs(n) = Eps /\ (Sign(c) # 0 => Sign(n) = Sign(c)))
    /\ ~QLt(QAbs(c), Eps) => n = c
    /\ Sign(c) # 0 => step = Sign(c)

\* C8: the nudge replaces a component of magnitude below epsilon by one of
\* magnitude epsilon with the sign of the original, leaves other components
\* alone, and the step along each axis follows the sign of the original
\* component.
C8_SignPreservingNudge ==
    pc = "dda"
    => /\ C8_ComponentNudged(seg.dir_in.x, current_dir.x, seg.h_dx)
       /\ C8_ComponentNudged(seg.dir_in.y, current_dir.y, seg.v_dy)

\* C9: when a cast returns, every grid cell that a segment of the ray passed
\* through is empty.
C9_PathThroughEmptyCells ==
    pc = "returned"
    => \A i \in 1..Len(segs) : \A c \in Cells(grid) :
          PassesThrough(segs[i].origin, segs[i].dir, segs[i].distance, c[1], c[2])
              => Tile(grid, c[1], c[2]) = 0

\* C10: a second cast on the same Ray with the same maxDistance, grid and
\* mirrors ends as the first did, with the same returned tuple.
C10_Repeatable ==
    (CastOver /\ prev.valid /\ prev.max_distance = max_distance)
    => (pc = prev.pc /\ result = prev.result)

=============================================================================
